---- MODULE Spec2Model ----
(***************************************************************************)
(* mosquitto-exporter: the topic-to-metric update pipeline of main.go.     *)
(* Strings are sequences of one-character strings, so that parseTopic and  *)
(* parseValue are computed character by character as the Go code does.     *)
(* A float64 value is a normalised decimal [m, e] standing for m * 10^-e   *)
(* (trailing zeros of the fraction removed), exact for the short payloads  *)
(* of the model; float64 rounding and range errors are outside the bounds. *)
(***************************************************************************)
EXTENDS Integers, Sequences, FiniteSets, TLC

\* Number of segments concatenated to build an input string of SpecPure.
MaxSegs == 4

(***************************************************************************)
(* Strings                                                                 *)
(***************************************************************************)
Digits == {"0", "1", "2", "3", "4", "5", "6", "7", "8", "9"}

DigitVal(c) ==
    CASE c = "0" -> 0 [] c = "1" -> 1 [] c = "2" -> 2 [] c = "3" -> 3
      [] c = "4" -> 4 [] c = "5" -> 5 [] c = "6" -> 6 [] c = "7" -> 7
      [] c = "8" -> 8 [] c = "9" -> 9

HasPrefix(s, p) == Len(s) >= Len(p) /\ SubSeq(s, 1, Len(p)) = p

\* strings.Replace(s, old, new, n): the first n non-overlapping occurrences
\* of old, scanning from the left; n < 0 replaces all of them.
RECURSIVE Replace(_, _, _, _)
Replace(s, old, new, n) ==
    IF n = 0 \/ Len(s) < Len(old) THEN s
    ELSE IF SubSeq(s, 1, Len(old)) = old
         THEN new \o Replace(SubSeq(s, Len(old) + 1, Len(s)), old, new, n - 1)
         ELSE <<s[1]>> \o Replace(Tail(s), old, new, n)

Sys == <<"$", "S", "Y", "S", "/">>

(***************************************************************************)
(* parseTopic (main.go 277-284)                                            *)
(***************************************************************************)
parseTopic(topic) ==
    LET n1 == Replace(topic, Sys, <<>>, 1)
        n2 == Replace(n1, <<"/">>, <<"_">>, -1)
        n3 == Replace(n2, <<" ">>, <<"_">>, -1)
        n4 == Replace(n3, <<"-">>, <<"_">>, -1)
    IN  Replace(n4, <<".">>, <<"_">>, -1)

(***************************************************************************)
(* parseValue (main.go 286-299)                                            *)
(***************************************************************************)
Zero == [m |-> 0, e |-> 0]

\* Length of the run of digits of s that starts at position i.
RECURSIVE DigitRun(_, _)
DigitRun(s, i) ==
    IF i > Len(s) \/ s[i] \notin Digits THEN 0 ELSE 1 + DigitRun(s, i + 1)

\* First alternative of the pattern at position i, -?\d{1,}[.]\d{1,}: the
\* position of the last character matched, or 0 when it does not match.
\* The greedy digit runs are the only candidates: a shorter run is followed
\* by a digit, never by the point or by the end of the alternative.
MatchDecimalAt(s, i) ==
    LET j  == IF i <= Len(s) /\ s[i] = "-" THEN i + 1 ELSE i
        d1 == DigitRun(s, j)
        p  == j + d1
        d2 == DigitRun(s, p + 1)
    IN  IF d1 >= 1 /\ p <= Len(s) /\ s[p] = "." /\ d2 >= 1
        THEN p + d2 ELSE 0

\* Second alternative at position i, \d{1,}.
MatchDigitsAt(s, i) ==
    IF DigitRun(s, i) >= 1 THEN i + DigitRun(s, i) - 1 ELSE 0

\* The leftmost match at or after position i, the first alternative
\* preferred at each position (Go's leftmost-first semantics); <<>> if none.
RECURSIVE FindFrom(_, _)
FindFrom(s, i) ==
    IF i > Len(s) THEN <<>>
    ELSE IF MatchDecimalAt(s, i) # 0 THEN <<SubSeq(s, i, MatchDecimalAt(s, i))>>
    ELSE IF MatchDigitsAt(s, i) # 0 THEN <<SubSeq(s, i, MatchDigitsAt(s, i))>>
    ELSE FindFrom(s, i + 1)

\* validValue.FindAllString(payload, 1): at most one match.
FindAllString1(payload) == FindFrom(payload, 1)

RECURSIVE DigitsToNat(_)
DigitsToNat(ds) ==
    IF ds = <<>> THEN 0
    ELSE 10 * DigitsToNat(SubSeq(ds, 1, Len(ds) - 1)) + DigitVal(ds[Len(ds)])

RECURSIVE Normalise(_, _)
Normalise(m, e) ==
    IF e > 0 /\ m % 10 = 0 THEN Normalise(m \div 10, e - 1) ELSE [m |-> m, e |-> e]

\* strconv.ParseFloat on a string the pattern matched: sign, integer digits
\* and, after the point, fraction digits.
ParseFloat(str) ==
    LET neg  == str[1] = "-"
        body == IF neg THEN Tail(str) ELSE str
        ip   == DigitRun(body, 1)
        int  == SubSeq(body, 1, ip)
        frac == SubSeq(body, ip + 2, Len(body))
        mag  == Normalise(DigitsToNat(int \o frac), Len(frac))
    IN  [m |-> IF neg THEN 0 - mag.m ELSE mag.m, e |-> mag.e]

\* A plausible slip: a payload without a number yields the marker -1.
parseValueMarksNoNumber(payload) ==
    LET strArray == FindAllString1(payload)
    IN  IF Len(strArray) > 0 THEN ParseFloat(strArray[1]) ELSE [m |-> 0 - 1, e |-> 0]

parseValue(payload) ==
    LET strArray == FindAllString1(payload)
    IN  IF Len(strArray) > 0 THEN ParseFloat(strArray[1]) ELSE Zero

(***************************************************************************)
(* Classification tables (main.go 26-45): the keys of the two maps         *)
(***************************************************************************)
ignoreKeyMetrics ==
    { Sys \o <<"b", "r", "o", "k", "e", "r", "/", "t", "i", "m", "e", "s", "t", "a", "m", "p">>,
      Sys \o <<"b", "r", "o", "k", "e", "r", "/", "v", "e", "r", "s", "i", "o", "n">>,
      Sys \o <<"b", "r", "o", "k", "e", "r", "/", "c", "l", "i", "e", "n", "t", "s", "/", "a", "c", "t", "i", "v", "e">>,
      Sys \o <<"b", "r", "o", "k", "e", "r", "/", "c", "l", "i", "e", "n", "t", "s", "/", "i", "n", "a", "c", "t", "i", "v", "e">> }
counterKeyMetrics ==
    { Sys \o <<"b", "r", "o", "k", "e", "r", "/", "b", "y", "t", "e", "s", "/", "r", "e", "c", "e", "i", "v", "e", "d">>,
      Sys \o <<"b", "r", "o", "k", "e", "r", "/", "b", "y", "t", "e", "s", "/", "s", "e", "n", "t">>,
      Sys \o <<"b", "r", "o", "k", "e", "r", "/", "m", "e", "s", "s", "a", "g", "e", "s", "/", "r", "e", "c", "e", "i", "v", "e", "d">>,
      Sys \o <<"b", "r", "o", "k", "e", "r", "/", "m", "e", "s", "s", "a", "g", "e", "s", "/", "s", "e", "n", "t">>,
      Sys \o <<"b", "r", "o", "k", "e", "r", "/", "p", "u", "b", "l", "i", "s", "h", "/", "b", "y", "t", "e", "s", "/", "r", "e", "c", "e", "i", "v", "e", "d">>,
      Sys \o <<"b", "r", "o", "k", "e", "r", "/", "p", "u", "b", "l", "i", "s", "h", "/", "b", "y", "t", "e", "s", "/", "s", "e", "n", "t">>,
      Sys \o <<"b", "r", "o", "k", "e", "r", "/", "p", "u", "b", "l", "i", "s", "h", "/", "m", "e", "s", "s", "a", "g", "e", "s", "/", "r", "e", "c", "e", "i", "v", "e", "d">>,
      Sys \o <<"b", "r", "o", "k", "e", "r", "/", "p", "u", "b", "l", "i", "s", "h", "/", "m", "e", "s", "s", "a", "g", "e", "s", "/", "s", "e", "n", "t">>,
      Sys \o <<"b", "r", "o", "k", "e", "r", "/", "p", "u", "b", "l", "i", "s", "h", "/", "m", "e", "s", "s", "a", "g", "e", "s", "/", "d", "r", "o", "p", "p", "e", "d">>,
      Sys \o <<"b", "r", "o", "k", "e", "r", "/", "u", "p", "t", "i", "m", "e">>,
      Sys \o <<"b", "r", "o", "k", "e", "r", "/", "c", "l", "i", "e", "n", "t", "s", "/", "m", "a", "x", "i", "m", "u", "m">>,
      Sys \o <<"b", "r", "o", "k", "e", "r", "/", "c", "l", "i", "e", "n", "t", "s", "/", "t", "o", "t", "a", "l">> }

(***************************************************************************)
(* Inputs of the model                                                     *)
(***************************************************************************)
\* "$SYS/broker/messages/received": a counter topic.
TopicMessagesReceived ==
    Sys \o <<"b", "r", "o", "k", "e", "r", "/", "m", "e", "s", "s", "a", "g", "e", "s", "/", "r", "e", "c", "e", "i", "v", "e", "d">>

\* "$SYS/broker/clients/active": an ignored topic.
TopicClientsActive ==
    Sys \o <<"b", "r", "o", "k", "e", "r", "/", "c", "l", "i", "e", "n", "t", "s", "/", "a", "c", "t", "i", "v", "e">>

\* "$SYS/broker/load/1min": in neither table, a gauge.
TopicLoad1min ==
    Sys \o <<"b", "r", "o", "k", "e", "r", "/", "l", "o", "a", "d", "/", "1", "m", "i", "n">>

\* "$SYS/broker/load-1min": a gauge whose derived name is that of
\* "$SYS/broker/load/1min".
TopicLoadDash1min ==
    Sys \o <<"b", "r", "o", "k", "e", "r", "/", "l", "o", "a", "d", "-", "1", "m", "i", "n">>

\* The topics the broker publishes under "$SYS/#" in the model.
MsgTopics ==
    {TopicMessagesReceived, TopicClientsActive, TopicLoad1min, TopicLoadDash1min}

\* The payloads "5", "7", "120", "0.42" and "connected".
Payloads ==
    { <<"5">>, <<"7">>, <<"1", "2", "0">>, <<"0", ".", "4", "2">>,
      <<"c", "o", "n", "n", "e", "c", "t", "e", "d">> }

\* The segments the input strings of SpecPure are concatenated from.
Segs ==
    { Sys, <<"a">>, <<"/">>, <<"-">>, <<".">>, <<" ">>, <<"5">>, <<"3", "0">> }

RECURSIVE Strings(_)
Strings(n) ==
    IF n = 0 THEN {<<>>}
    ELSE LET S == Strings(n - 1) IN S \cup {s \o g : s \in S, g \in Segs}

PureInputs == Strings(MaxSegs)

\* parseTopic and parseValue on the inputs of the model, computed once.
NameOf == [t \in MsgTopics |-> parseTopic(t)]

ValueOf == [p \in Payloads |-> parseValue(p)]

(***************************************************************************)
(* The walk-through: three updates on a fresh registry, then a reset       *)
(***************************************************************************)
\* The connection-lost event in a sequence of events; a message is the pair
\* of its topic and its payload.
Lost == <<<<>>, <<>>>>

ScenarioMsgs ==
    << <<TopicMessagesReceived, <<"1", "2", "0">>>>,
       <<TopicClientsActive, <<"5">>>>,
       <<TopicLoad1min, <<"0", ".", "4", "2">>>> >>

Scenario == Append(ScenarioMsgs, Lost)

\* The value of the history once the events have left Scenario.
Deviated == << <<>> >>

IsPrefix(s, t) == Len(s) <= Len(t) /\ SubSeq(t, 1, Len(s)) = s

\* The history after event ev: it grows while the events follow Scenario.
Extend(sc, ev) ==
    IF sc # Deviated /\ IsPrefix(Append(sc, ev), Scenario)
    THEN Append(sc, ev) ELSE Deviated

(***************************************************************************)
(* State                                                                   *)
(***************************************************************************)
VARIABLES
    counterMetrics,    \* map topic -> value of its MosquittoCounter
    gaugeMetrics,      \* map topic -> value of its prometheus.Gauge
    registered,        \* topics whose metric the default registry exports
    resetMetricsFlag,  \* cmd.Bool("reset-metrics")
    mpc,               \* runServer: "connect", "sleep", "listen", "serving", "exited"
    conn,              \* broker connection: "down", "up"
    opc,               \* OnConnect callback: "idle", "OnConnect"
    subscribed,        \* the subscription to "$SYS/#" of the current connection
    hpc,               \* message callback: position in processUpdate
    hTopic,            \* its topic argument
    hPayload,          \* its payload argument
    hOld,              \* history: the value the call's Set replaced
    rpc,               \* connection-lost callback: position in resetMetrics
    rSeen,             \* keys the running range loop has produced
    rSnap,             \* keys the map held when the running range loop began
    crashed,           \* the process died of a panic or a runtime fatal error
    lastPayload,       \* history: per topic, <<payload>> of the latest update
                       \* not yet followed by a reset of that metric, else <<>>
    dirty,             \* history: an update wrote while resetMetrics was running
    pin,               \* SpecPure: the input string
    pout,              \* SpecPure: the result
    ppc,               \* SpecPure: "off", "input", "parseTopic", "parseValue"
    scenario,          \* history: the events so far while they follow Scenario
    retried,           \* history: an attempt of the running connect loop failed
    subAttempted,      \* history: Subscribe was called on the current connection
    everConnected      \* history: a connect attempt completed without error

registry == <<counterMetrics, gaugeMetrics, registered>>
mainVars == <<mpc, conn, opc, subscribed>>
handlerVars == <<hpc, hTopic, hPayload, hOld>>
resetVars == <<rpc, rSeen, rSnap>>
pureVars == <<pin, pout, ppc>>
vars == <<counterMetrics, gaugeMetrics, registered, resetMetricsFlag, mpc, conn, opc,
          subscribed, hpc, hTopic, hPayload, hOld, rpc, rSeen, rSnap, crashed,
          lastPayload, dirty, pin, pout, ppc, scenario, retried,
          subAttempted, everConnected>>

\* The process runs: no panic, no fatal error, no log.Fatalf.
Alive == ~crashed /\ mpc # "exited"

\* resetMetrics has begun and its caller has not returned yet.
InReset == rpc \in {"rangeCounters", "rangeGauges", "resetDone"}

InitProgram ==
    /\ counterMetrics = <<>>
    /\ gaugeMetrics = <<>>
    /\ registered = {}
    /\ resetMetricsFlag \in BOOLEAN
    /\ mpc = "connect"
    /\ conn = "down"
    /\ opc = "idle"
    /\ subscribed = FALSE
    /\ hpc = "idle"
    /\ hTopic = <<>>
    /\ hPayload = <<>>
    /\ hOld = Zero
    /\ rpc = "idle"
    /\ rSeen = {}
    /\ rSnap = {}
    /\ crashed = FALSE
    /\ lastPayload = [t \in MsgTopics |-> <<>>]
    /\ dirty = FALSE
    /\ scenario = <<>>
    /\ retried = FALSE
    /\ subAttempted = FALSE
    /\ everConnected = FALSE

Init ==
    /\ InitProgram
    /\ pin = <<>>
    /\ pout = <<>>
    /\ ppc = "off"

(***************************************************************************)
(* runServer (main.go 137-221) and the client library's events             *)
(***************************************************************************)
\* client.Connect() succeeded: the loop breaks and the library calls OnConnect.
ConnectOk ==
    /\ Alive /\ mpc = "connect"
    /\ mpc' = "listen"
    /\ conn' = "up"
    /\ opc' = "OnConnect"
    /\ UNCHANGED <<registry, resetMetricsFlag, subscribed, handlerVars, resetVars,
                   crashed, lastPayload, dirty, pureVars>>
    /\ retried' = FALSE
    /\ subAttempted' = FALSE
    /\ everConnected' = TRUE
    /\ UNCHANGED scenario

\* A plausible slip: a failed connect attempt ends the process, as
\* fatalfOnError does for the other errors.
ConnectFailExits ==
    /\ Alive /\ mpc = "connect"
    /\ mpc' = "exited"
    /\ UNCHANGED <<registry, resetMetricsFlag, conn, opc, subscribed, handlerVars,
                   resetVars, crashed, lastPayload, dirty, pureVars>>
    /\ retried' = TRUE
    /\ UNCHANGED <<scenario, subAttempted, everConnected>>

\* A plausible slip: the loop is left when the token completed, its error
\* not looked at.
ConnectFailBreaks ==
    /\ Alive /\ mpc = "connect"
    /\ mpc' = "listen"
    /\ UNCHANGED <<registry, resetMetricsFlag, conn, opc, subscribed, handlerVars,
                   resetVars, crashed, lastPayload, dirty, pureVars>>
    /\ retried' = TRUE
    /\ UNCHANGED <<scenario, subAttempted, everConnected>>

\* client.Connect() failed or timed out: log, then time.Sleep.
ConnectFail ==
    /\ Alive /\ mpc = "connect"
    /\ mpc' = "sleep"
    /\ UNCHANGED <<registry, resetMetricsFlag, conn, opc, subscribed, handlerVars,
                   resetVars, crashed, lastPayload, dirty, pureVars>>
    /\ retried' = TRUE
    /\ UNCHANGED <<scenario, subAttempted, everConnected>>

Sleep ==
    /\ Alive /\ mpc = "sleep"
    /\ mpc' = "connect"
    /\ UNCHANGED <<registry, resetMetricsFlag, conn, opc, subscribed, handlerVars,
                   resetVars, crashed, lastPayload, dirty, pureVars>>
    /\ UNCHANGED <<scenario, retried, subAttempted, everConnected>>

\* http.ListenAndServe binds and serves.
ListenAndServe ==
    /\ Alive /\ mpc = "listen"
    /\ mpc' = "serving"
    /\ UNCHANGED <<registry, resetMetricsFlag, conn, opc, subscribed, handlerVars,
                   resetVars, crashed, lastPayload, dirty, pureVars>>
    /\ UNCHANGED <<scenario, retried, subAttempted, everConnected>>

\* http.ListenAndServe returns an error: fatalfOnError ends the process.
ListenFail ==
    /\ Alive /\ mpc = "listen"
    /\ mpc' = "exited"
    /\ UNCHANGED <<registry, resetMetricsFlag, conn, opc, subscribed, handlerVars,
                   resetVars, crashed, lastPayload, dirty, pureVars>>
    /\ UNCHANGED <<scenario, retried, subAttempted, everConnected>>

\* OnConnect: client.Subscribe("$SYS/#") succeeds.
OnConnectSubscribed ==
    /\ Alive /\ opc = "OnConnect" /\ conn = "up"
    /\ opc' = "idle"
    /\ subscribed' = TRUE
    /\ UNCHANGED <<registry, resetMetricsFlag, mpc, conn, handlerVars, resetVars,
                   crashed, lastPayload, dirty, pureVars>>
    /\ subAttempted' = TRUE
    /\ UNCHANGED <<scenario, retried, everConnected>>

\* OnConnect: the subscribe times out or fails; the error is logged.
OnConnectFailed ==
    /\ Alive /\ opc = "OnConnect"
    /\ opc' = "idle"
    /\ UNCHANGED <<registry, resetMetricsFlag, mpc, conn, subscribed, handlerVars,
                   resetVars, crashed, lastPayload, dirty, pureVars>>
    /\ subAttempted' = (conn = "up")
    /\ UNCHANGED <<scenario, retried, everConnected>>

\* The connection breaks: the library stops the workers of the connection,
\* the message router with the callback it runs included, and then calls
\* OnConnectionLost in a goroutine of its own, which runs beside the
\* reconnect and the messages of the next connection.  One such callback is
\* in flight at a time in the model.
ConnectionLost ==
    /\ Alive /\ conn = "up" /\ hpc = "idle" /\ rpc = "idle"
    /\ conn' = "down"
    /\ subscribed' = FALSE
    /\ rpc' = "OnConnectionLost"
    /\ UNCHANGED <<registry, resetMetricsFlag, mpc, opc, handlerVars, rSeen, rSnap,
                   crashed, lastPayload, dirty, pureVars>>
    /\ scenario' = Extend(scenario, Lost)
    /\ subAttempted' = FALSE
    /\ UNCHANGED <<retried, everConnected>>

\* A plausible slip: the subscription is made once, for the first connection,
\* and a reconnect does not call OnConnect.
ReconnectWithoutOnConnect ==
    /\ Alive /\ conn = "down" /\ mpc \in {"listen", "serving"} /\ opc = "idle"
    /\ conn' = "up"
    /\ UNCHANGED <<registry, resetMetricsFlag, mpc, opc, subscribed, handlerVars,
                   resetVars, crashed, lastPayload, dirty, pureVars>>
    /\ subAttempted' = FALSE
    /\ UNCHANGED <<scenario, retried, everConnected>>

\* The library reconnects by itself and calls OnConnect again.
Reconnect ==
    /\ Alive /\ conn = "down" /\ mpc \in {"listen", "serving"} /\ opc = "idle"
    /\ conn' = "up"
    /\ opc' = "OnConnect"
    /\ UNCHANGED <<registry, resetMetricsFlag, mpc, subscribed, handlerVars,
                   resetVars, crashed, lastPayload, dirty, pureVars>>
    /\ subAttempted' = FALSE
    /\ UNCHANGED <<scenario, retried, everConnected>>

(***************************************************************************)
(* The message callback: processUpdate (main.go 179-181, 224-275)          *)
(***************************************************************************)
\* A message of the subscription arrives; the library calls the callback,
\* one message at a time.
Deliver ==
    /\ Alive /\ conn = "up" /\ subscribed /\ hpc = "idle"
    /\ \E topic \in MsgTopics, payload \in Payloads :
          /\ hTopic' = topic
          /\ hPayload' = payload
    /\ hpc' = "processUpdate"
    /\ UNCHANGED <<hOld, registry, resetMetricsFlag, mainVars, resetVars, crashed,
                   lastPayload, dirty, pureVars>>
    /\ scenario' = Extend(scenario, <<hTopic', hPayload'>>)
    /\ UNCHANGED <<retried, subAttempted, everConnected>>

\* A plausible slip: the ignored table is not consulted.
processUpdateBranchNoIgnore(topic) ==
    IF topic \in counterKeyMetrics THEN "processCounterMetric"
    ELSE "processGaugeMetric"

\* A plausible slip: the counter table is not consulted.
processUpdateBranchNoCounter(topic) ==
    IF topic \in ignoreKeyMetrics THEN "return" ELSE "processGaugeMetric"

\* The branch processUpdate takes: ignored first, then counter, else gauge.
processUpdateBranch(topic) ==
    IF topic \in ignoreKeyMetrics THEN "return"
    ELSE IF topic \in counterKeyMetrics THEN "processCounterMetric"
    ELSE "processGaugeMetric"

processUpdate ==
    /\ Alive /\ hpc = "processUpdate"
    /\ hpc' = processUpdateBranch(hTopic)
    /\ UNCHANGED <<registry, resetMetricsFlag, mainVars, hTopic, hPayload, hOld, resetVars,
                   crashed, lastPayload, dirty, pureVars>>
    /\ UNCHANGED <<scenario, retried, subAttempted, everConnected>>

\* A plausible slip: the test looks at the value, so a counter at 0 counts
\* as absent.
processCounterMetricTestsValue ==
    /\ Alive /\ hpc = "processCounterMetric"
    /\ hpc' = IF hTopic \in DOMAIN counterMetrics /\ counterMetrics[hTopic] # Zero
              THEN "counterSet" ELSE "counterStore"
    /\ UNCHANGED <<registry, resetMetricsFlag, mainVars, hTopic, hPayload, hOld, resetVars,
                   crashed, lastPayload, dirty, pureVars>>
    /\ UNCHANGED <<scenario, retried, subAttempted, everConnected>>

\* processCounterMetric: the test counterMetrics[topic] != nil.
processCounterMetric ==
    /\ Alive /\ hpc = "processCounterMetric"
    /\ hpc' = IF hTopic \in DOMAIN counterMetrics THEN "counterSet" ELSE "counterStore"
    /\ UNCHANGED <<registry, resetMetricsFlag, mainVars, hTopic, hPayload, hOld, resetVars,
                   crashed, lastPayload, dirty, pureVars>>
    /\ UNCHANGED <<scenario, retried, subAttempted, everConnected>>

\* MosquittoCounter.Set: the counter takes the value given.
MosquittoCounterSet(old, value) == value

\* prometheus.Gauge.Set: the gauge takes the value given.
GaugeSet(old, value) == value

\* The sum of two values, for a Set that would accumulate.
RECURSIVE Scale(_, _)
Scale(m, k) == IF k = 0 THEN m ELSE Scale(10 * m, k - 1)

Add(a, b) ==
    LET e == IF a.e >= b.e THEN a.e ELSE b.e
        s == Scale(a.m, e - a.e) + Scale(b.m, e - b.e)
        n == Normalise(IF s < 0 THEN 0 - s ELSE s, e)
    IN  [m |-> IF s < 0 THEN 0 - n.m ELSE n.m, e |-> n.e]

\* A plausible slip: the value is added to the counter, as a Prometheus
\* counter's Add would.
processCounterMetricSetAdds ==
    /\ Alive /\ hpc = "counterSet"
    /\ counterMetrics' = [counterMetrics EXCEPT
                            ![hTopic] = Add(@, ValueOf[hPayload])]
    /\ hOld' = counterMetrics[hTopic]
    /\ lastPayload' = [lastPayload EXCEPT ![hTopic] = <<hPayload>>]
    /\ dirty' = InReset
    /\ hpc' = "return"
    /\ UNCHANGED <<gaugeMetrics, registered, resetMetricsFlag, mainVars, hTopic,
                   hPayload, resetVars, crashed, pureVars>>
    /\ UNCHANGED <<scenario, retried, subAttempted, everConnected>>

\* The metric exists: value := parseValue(payload); counterMetrics[topic].Set(value).
processCounterMetricSet ==
    /\ Alive /\ hpc = "counterSet"
    /\ counterMetrics' = [counterMetrics EXCEPT
                            ![hTopic] = MosquittoCounterSet(@, ValueOf[hPayload])]
    /\ hOld' = counterMetrics[hTopic]
    /\ lastPayload' = [lastPayload EXCEPT ![hTopic] = <<hPayload>>]
    /\ dirty' = InReset
    /\ hpc' = "return"
    /\ UNCHANGED <<gaugeMetrics, registered, resetMetricsFlag, mainVars, hTopic,
                   hPayload, resetVars, crashed, pureVars>>
    /\ UNCHANGED <<scenario, retried, subAttempted, everConnected>>

\* counterMetrics[topic] = mCounter.  The map is written without a lock: if
\* resetMetrics is ranging over it in its goroutine, the runtime may end the
\* process ("concurrent map iteration and map write") or let both go on.
processCounterMetricStore ==
    /\ Alive /\ hpc = "counterStore"
    /\ counterMetrics' = counterMetrics @@ (hTopic :> Zero)
    /\ dirty' = InReset
    /\ hpc' = "counterRegister"
    /\ \/ crashed' = FALSE
       \/ rpc = "rangeCounters" /\ crashed' = TRUE
    /\ UNCHANGED <<gaugeMetrics, registered, resetMetricsFlag, mainVars, hTopic,
                   hPayload, hOld, resetVars, lastPayload, pureVars>>
    /\ UNCHANGED <<scenario, retried, subAttempted, everConnected>>

\* A plausible slip: Register with its error dropped, the collector added.
RegisterIgnoringError(reg, topic) ==
    [ok |-> TRUE, reg |-> reg \cup {topic}]

\* prometheus.MustRegister of the metric of topic: it panics when a
\* registered collector already has the derived name.
MustRegister(reg, topic) ==
    IF \E r \in reg : NameOf[r] = NameOf[topic]
    THEN [ok |-> FALSE, reg |-> reg]
    ELSE [ok |-> TRUE, reg |-> reg \cup {topic}]

processCounterMetricRegister ==
    /\ Alive /\ hpc = "counterRegister"
    /\ LET r == MustRegister(registered, hTopic)
       IN  /\ registered' = r.reg
           /\ crashed' = ~r.ok
           /\ hpc' = IF r.ok THEN "counterSetFirst" ELSE hpc
    /\ UNCHANGED <<counterMetrics, gaugeMetrics, resetMetricsFlag, mainVars, hTopic,
                   hPayload, hOld, resetVars, lastPayload, dirty, pureVars>>
    /\ UNCHANGED <<scenario, retried, subAttempted, everConnected>>

\* The first value: value := parseValue(payload); counterMetrics[topic].Set(value).
processCounterMetricSetFirst ==
    /\ Alive /\ hpc = "counterSetFirst"
    /\ counterMetrics' = [counterMetrics EXCEPT
                            ![hTopic] = MosquittoCounterSet(@, ValueOf[hPayload])]
    /\ hOld' = counterMetrics[hTopic]
    /\ lastPayload' = [lastPayload EXCEPT ![hTopic] = <<hPayload>>]
    /\ dirty' = InReset
    /\ hpc' = "return"
    /\ UNCHANGED <<gaugeMetrics, registered, resetMetricsFlag, mainVars, hTopic,
                   hPayload, resetVars, crashed, pureVars>>
    /\ UNCHANGED <<scenario, retried, subAttempted, everConnected>>

\* processGaugeMetric: the test gaugeMetrics[topic] != nil.
processGaugeMetric ==
    /\ Alive /\ hpc = "processGaugeMetric"
    /\ hpc' = IF hTopic \in DOMAIN gaugeMetrics THEN "gaugeSet" ELSE "gaugeStore"
    /\ UNCHANGED <<registry, resetMetricsFlag, mainVars, hTopic, hPayload, hOld, resetVars,
                   crashed, lastPayload, dirty, pureVars>>
    /\ UNCHANGED <<scenario, retried, subAttempted, everConnected>>

processGaugeMetricSet ==
    /\ Alive /\ hpc = "gaugeSet"
    /\ gaugeMetrics' = [gaugeMetrics EXCEPT
                          ![hTopic] = GaugeSet(@, ValueOf[hPayload])]
    /\ hOld' = gaugeMetrics[hTopic]
    /\ lastPayload' = [lastPayload EXCEPT ![hTopic] = <<hPayload>>]
    /\ dirty' = InReset
    /\ hpc' = "return"
    /\ UNCHANGED <<counterMetrics, registered, resetMetricsFlag, mainVars, hTopic,
                   hPayload, resetVars, crashed, pureVars>>
    /\ UNCHANGED <<scenario, retried, subAttempted, everConnected>>

\* A plausible slip: the store makes the map anew, with the new gauge alone.
processGaugeMetricStoreReplaces ==
    /\ Alive /\ hpc = "gaugeStore"
    /\ gaugeMetrics' = (hTopic :> Zero)
    /\ dirty' = InReset
    /\ hpc' = "gaugeRegister"
    /\ \/ crashed' = FALSE
       \/ rpc = "rangeGauges" /\ crashed' = TRUE
    /\ UNCHANGED <<counterMetrics, registered, resetMetricsFlag, mainVars, hTopic,
                   hPayload, hOld, resetVars, lastPayload, pureVars>>
    /\ UNCHANGED <<scenario, retried, subAttempted, everConnected>>

\* gaugeMetrics[topic] = prometheus.NewGauge(...): the same unlocked write.
processGaugeMetricStore ==
    /\ Alive /\ hpc = "gaugeStore"
    /\ gaugeMetrics' = gaugeMetrics @@ (hTopic :> Zero)
    /\ dirty' = InReset
    /\ hpc' = "gaugeRegister"
    /\ \/ crashed' = FALSE
       \/ rpc = "rangeGauges" /\ crashed' = TRUE
    /\ UNCHANGED <<counterMetrics, registered, resetMetricsFlag, mainVars, hTopic,
                   hPayload, hOld, resetVars, lastPayload, pureVars>>
    /\ UNCHANGED <<scenario, retried, subAttempted, everConnected>>

processGaugeMetricRegister ==
    /\ Alive /\ hpc = "gaugeRegister"
    /\ LET r == MustRegister(registered, hTopic)
       IN  /\ registered' = r.reg
           /\ crashed' = ~r.ok
           /\ hpc' = IF r.ok THEN "gaugeSetFirst" ELSE hpc
    /\ UNCHANGED <<counterMetrics, gaugeMetrics, resetMetricsFlag, mainVars, hTopic,
                   hPayload, hOld, resetVars, lastPayload, dirty, pureVars>>
    /\ UNCHANGED <<scenario, retried, subAttempted, everConnected>>

\* A plausible slip: the first value is never set, the new gauge stays 0.
processGaugeMetricSetFirstSkipped ==
    /\ Alive /\ hpc = "gaugeSetFirst"
    /\ hOld' = gaugeMetrics[hTopic]
    /\ lastPayload' = [lastPayload EXCEPT ![hTopic] = <<hPayload>>]
    /\ dirty' = InReset
    /\ hpc' = "return"
    /\ UNCHANGED <<registry, resetMetricsFlag, mainVars, hTopic, hPayload, resetVars,
                   crashed, pureVars>>
    /\ UNCHANGED <<scenario, retried, subAttempted, everConnected>>

processGaugeMetricSetFirst ==
    /\ Alive /\ hpc = "gaugeSetFirst"
    /\ gaugeMetrics' = [gaugeMetrics EXCEPT
                          ![hTopic] = GaugeSet(@, ValueOf[hPayload])]
    /\ hOld' = gaugeMetrics[hTopic]
    /\ lastPayload' = [lastPayload EXCEPT ![hTopic] = <<hPayload>>]
    /\ dirty' = InReset
    /\ hpc' = "return"
    /\ UNCHANGED <<counterMetrics, registered, resetMetricsFlag, mainVars, hTopic,
                   hPayload, resetVars, crashed, pureVars>>
    /\ UNCHANGED <<scenario, retried, subAttempted, everConnected>>

\* processUpdate returns to the library.
Return ==
    /\ Alive /\ hpc = "return"
    /\ hpc' = "idle"
    /\ hTopic' = <<>>
    /\ hPayload' = <<>>
    /\ hOld' = Zero
    /\ UNCHANGED <<registry, resetMetricsFlag, mainVars, resetVars, crashed,
                   lastPayload, dirty, pureVars>>
    /\ UNCHANGED <<scenario, retried, subAttempted, everConnected>>

(***************************************************************************)
(* The connection-lost callback (main.go 189-196) and resetMetrics         *)
(* (main.go 124-135)                                                       *)
(***************************************************************************)
\* A plausible slip: the flag is not consulted, the metrics are always reset.
OnConnectionLostBranchAlways(flag) == "rangeCounters"

\* if cmd.Bool("reset-metrics") { resetMetrics() } else { log only }.
OnConnectionLostBranch(flag) == IF flag THEN "rangeCounters" ELSE "idle"

OnConnectionLost ==
    /\ Alive /\ rpc = "OnConnectionLost"
    /\ rpc' = OnConnectionLostBranch(resetMetricsFlag)
    /\ rSeen' = {}
    /\ rSnap' = IF rpc' = "rangeCounters" THEN DOMAIN counterMetrics ELSE {}
    /\ dirty' = FALSE
    /\ UNCHANGED <<registry, resetMetricsFlag, mainVars, handlerVars, crashed,
                   lastPayload, pureVars>>
    /\ UNCHANGED <<scenario, retried, subAttempted, everConnected>>

\* One iteration of "for topic := range counterMetrics": Set(0).  The range
\* produces every key the map held when the loop began, each once, and may
\* or may not produce a key inserted meanwhile.
resetMetricsCounter ==
    /\ Alive /\ rpc = "rangeCounters"
    /\ \E topic \in DOMAIN counterMetrics \ rSeen :
          /\ counterMetrics' = [counterMetrics EXCEPT
                                  ![topic] = MosquittoCounterSet(@, Zero)]
          /\ lastPayload' = [lastPayload EXCEPT ![topic] = <<>>]
          /\ rSeen' = rSeen \cup {topic}
    /\ UNCHANGED <<gaugeMetrics, registered, resetMetricsFlag, mainVars, handlerVars,
                   rpc, rSnap, crashed, dirty, pureVars>>
    /\ UNCHANGED <<scenario, retried, subAttempted, everConnected>>

\* A plausible slip: resetMetrics returns after the counters.
resetMetricsCountersEndReturns ==
    /\ Alive /\ rpc = "rangeCounters" /\ rSnap \subseteq rSeen
    /\ rpc' = "resetDone"
    /\ rSeen' = {}
    /\ rSnap' = {}
    /\ UNCHANGED <<registry, resetMetricsFlag, mainVars, handlerVars, crashed,
                   lastPayload, dirty, pureVars>>
    /\ UNCHANGED <<scenario, retried, subAttempted, everConnected>>

\* The first loop ends; "for topic := range gaugeMetrics" begins.
resetMetricsCountersEnd ==
    /\ Alive /\ rpc = "rangeCounters" /\ rSnap \subseteq rSeen
    /\ rpc' = "rangeGauges"
    /\ rSeen' = {}
    /\ rSnap' = DOMAIN gaugeMetrics
    /\ UNCHANGED <<registry, resetMetricsFlag, mainVars, handlerVars, crashed,
                   lastPayload, dirty, pureVars>>
    /\ UNCHANGED <<scenario, retried, subAttempted, everConnected>>

\* A plausible slip: the loop over the gauges visits them and sets none.
resetMetricsGaugeSkips ==
    /\ Alive /\ rpc = "rangeGauges"
    /\ \E topic \in DOMAIN gaugeMetrics \ rSeen :
          rSeen' = rSeen \cup {topic}
    /\ UNCHANGED <<registry, resetMetricsFlag, mainVars, handlerVars, rpc, rSnap,
                   crashed, lastPayload, dirty, pureVars>>
    /\ UNCHANGED <<scenario, retried, subAttempted, everConnected>>

resetMetricsGauge ==
    /\ Alive /\ rpc = "rangeGauges"
    /\ \E topic \in DOMAIN gaugeMetrics \ rSeen :
          /\ gaugeMetrics' = [gaugeMetrics EXCEPT ![topic] = GaugeSet(@, Zero)]
          /\ lastPayload' = [lastPayload EXCEPT ![topic] = <<>>]
          /\ rSeen' = rSeen \cup {topic}
    /\ UNCHANGED <<counterMetrics, registered, resetMetricsFlag, mainVars, handlerVars,
                   rpc, rSnap, crashed, dirty, pureVars>>
    /\ UNCHANGED <<scenario, retried, subAttempted, everConnected>>

\* The second loop ends: resetMetrics has run.
resetMetricsGaugesEnd ==
    /\ Alive /\ rpc = "rangeGauges" /\ rSnap \subseteq rSeen
    /\ rpc' = "resetDone"
    /\ rSeen' = {}
    /\ rSnap' = {}
    /\ UNCHANGED <<registry, resetMetricsFlag, mainVars, handlerVars, crashed,
                   lastPayload, dirty, pureVars>>
    /\ UNCHANGED <<scenario, retried, subAttempted, everConnected>>

\* resetMetrics and the callback return.
resetMetricsReturn ==
    /\ Alive /\ rpc = "resetDone"
    /\ rpc' = "idle"
    /\ dirty' = FALSE
    /\ UNCHANGED <<registry, resetMetricsFlag, mainVars, handlerVars, rSeen, rSnap,
                   crashed, lastPayload, pureVars>>
    /\ UNCHANGED <<scenario, retried, subAttempted, everConnected>>

(***************************************************************************)
(* The program                                                             *)
(***************************************************************************)
Next ==
    \/ ConnectOk
    \/ ConnectFail
    \/ Sleep
    \/ ListenAndServe
    \/ ListenFail
    \/ OnConnectSubscribed
    \/ OnConnectFailed
    \/ ConnectionLost
    \/ Reconnect
    \/ Deliver
    \/ processUpdate
    \/ processCounterMetric
    \/ processCounterMetricSet
    \/ processCounterMetricStore
    \/ processCounterMetricRegister
    \/ processCounterMetricSetFirst
    \/ processGaugeMetric
    \/ processGaugeMetricSet
    \/ processGaugeMetricStore
    \/ processGaugeMetricRegister
    \/ processGaugeMetricSetFirst
    \/ Return
    \/ OnConnectionLost
    \/ resetMetricsCounter
    \/ resetMetricsCountersEnd
    \/ resetMetricsGauge
    \/ resetMetricsGaugesEnd
    \/ resetMetricsReturn

Spec == Init /\ [][Next]_vars

\* The program under the scheduling the runtime gives its goroutines: a
\* connect attempt completes (its wait is 5 s at most), a sleep ends,
\* ListenAndServe binds or fails, and the goroutine of OnConnect runs, its
\* Subscribe done or failed (its wait is 10 s at most).
FairSpec ==
    /\ Spec
    /\ WF_vars(ConnectOk \/ ConnectFail)
    /\ WF_vars(Sleep)
    /\ WF_vars(ListenAndServe \/ ListenFail)
    /\ WF_vars(OnConnectSubscribed \/ OnConnectFailed)

(***************************************************************************)
(* parseTopic and parseValue applied to the strings of PureInputs          *)
(***************************************************************************)
InitPure ==
    /\ InitProgram
    /\ pin \in PureInputs
    /\ pout = <<>>
    /\ ppc = "input"

ApplyParseTopic ==
    /\ ppc = "input"
    /\ pout' = parseTopic(pin)
    /\ ppc' = "parseTopic"
    /\ UNCHANGED <<registry, resetMetricsFlag, mainVars, handlerVars, resetVars,
                   crashed, lastPayload, dirty, pin>>
    /\ UNCHANGED <<scenario, retried, subAttempted, everConnected>>

ApplyParseValue ==
    /\ ppc = "input"
    /\ pout' = parseValue(pin)
    /\ ppc' = "parseValue"
    /\ UNCHANGED <<registry, resetMetricsFlag, mainVars, handlerVars, resetVars,
                   crashed, lastPayload, dirty, pin>>
    /\ UNCHANGED <<scenario, retried, subAttempted, everConnected>>

NextPure == ApplyParseTopic \/ ApplyParseValue

SpecPure == InitPure /\ [][NextPure]_vars

(***************************************************************************)
(* Properties                                                              *)
(***************************************************************************)
Keys == DOMAIN counterMetrics \cup DOMAIN gaugeMetrics

\* The value of the metric of topic t, a key of one of the maps.
Value(t) == IF t \in DOMAIN counterMetrics THEN counterMetrics[t] ELSE gaugeMetrics[t]

AllZero == \A t \in Keys : Value(t) = Zero

\* A step of the message callback, from Deliver to Return.
HandlerStep == hpc' # hpc

\* A step of the connection-lost callback, from its first statement on.
CallbackStep == rpc # "idle" /\ (rpc' # rpc \/ rSeen' # rSeen)

\* C1: no step of processUpdate(topic, payload) for a topic of the ignored
\* table changes the counter map, the gauge map, a metric value or the set
\* of registered metrics, whatever the payload and the state.
IgnoredTopicNoEffect ==
    [][((hTopic \in ignoreKeyMetrics \/ hTopic' \in ignoreKeyMetrics) /\ HandlerStep)
          => UNCHANGED registry]_vars

\* C1 witness: a call for an ignored topic has reached its return while
\* both maps hold metrics.
IgnoredTopicHandled ==
    /\ hpc = "return" /\ hTopic \in ignoreKeyMetrics
    /\ DOMAIN counterMetrics # {} /\ DOMAIN gaugeMetrics # {}

\* What C2 asks of the registry for the topic and payload of the call.
HoldsParsedValue ==
    /\ hTopic \in registered
    /\ IF hTopic \in counterKeyMetrics
       THEN /\ hTopic \in DOMAIN counterMetrics
            /\ hTopic \notin DOMAIN gaugeMetrics
            /\ counterMetrics[hTopic] = ValueOf[hPayload]
       ELSE /\ hTopic \in DOMAIN gaugeMetrics
            /\ hTopic \notin DOMAIN counterMetrics
            /\ gaugeMetrics[hTopic] = ValueOf[hPayload]

\* C2: the step that brings processUpdate(topic, payload) to its return,
\* for a topic that is not ignored, leaves exactly one metric for the
\* topic, registered, in counterMetrics if the topic is in the counter table
\* and in gaugeMetrics otherwise, with value parseValue(payload); this holds
\* whether the topic had a metric before or not.
UpdateSetsParsedValue ==
    [][(hpc # "return" /\ hpc' = "return" /\ hTopic \notin ignoreKeyMetrics)
          => HoldsParsedValue']_vars

\* C2 witness: a call has replaced the non-zero value of an existing counter
\* by another non-zero value and is at its return.
UpdatedExistingCounter ==
    /\ hpc = "return" /\ hTopic \in counterKeyMetrics
    /\ HoldsParsedValue
    /\ hOld # Zero /\ ValueOf[hPayload] # Zero /\ hOld # ValueOf[hPayload]

\* C3: when resetMetrics has run and no update wrote meanwhile, every
\* metric is 0; and no step of the connection-lost callback changes the keys
\* of the two maps or the set of registered metrics.
ResetZeroesAndKeepsAll ==
    /\ []((rpc = "resetDone" /\ ~dirty) => AllZero)
    /\ [][CallbackStep =>
            /\ DOMAIN counterMetrics' = DOMAIN counterMetrics
            /\ DOMAIN gaugeMetrics' = DOMAIN gaugeMetrics
            /\ registered' = registered]_vars

\* C3 witness: resetMetrics has run over a counter and a gauge, both
\* registered, with no update meanwhile.
ResetRanOverBoth ==
    /\ rpc = "resetDone" /\ ~dirty /\ hpc = "idle"
    /\ DOMAIN counterMetrics # {} /\ DOMAIN gaugeMetrics # {}
    /\ Keys = registered
    /\ AllZero

\* C4: a metric updated since it was last reset holds parseValue of the
\* most recent payload delivered for its topic, whatever was delivered
\* before.
LastPayloadWins ==
    \A t \in MsgTopics :
        lastPayload[t] # <<>> =>
            t \in Keys /\ Value(t) = ValueOf[lastPayload[t][1]]

\* C4 witness: the payload "7" has replaced the value 5 of a metric, which
\* now reads 7.
SevenReplacedFive ==
    /\ hpc = "return" /\ hTopic \in Keys
    /\ hPayload = <<"7">>
    /\ hOld = ValueOf[<<"5">>]
    /\ Value(hTopic) = [m |-> 7, e |-> 0]

\* The first numeric token of s at or after position i as C5 reads it: an
\* optional minus sign, digits and, if a point and digits follow, those.
RECURSIVE FirstNumericToken(_, _)
FirstNumericToken(s, i) ==
    IF i > Len(s) THEN <<>>
    ELSE LET j    == IF s[i] = "-" THEN i + 1 ELSE i
             d1   == DigitRun(s, j)
             p    == j + d1
             d2   == IF p <= Len(s) /\ s[p] = "." THEN DigitRun(s, p + 1) ELSE 0
             last == IF d2 >= 1 THEN p + d2 ELSE p - 1
         IN  IF d1 >= 1 THEN <<SubSeq(s, i, last)>>
             ELSE FirstNumericToken(s, i + 1)

\* C5: for a payload with a first numeric token N, an integer or a decimal
\* with or without a leading minus sign, parseValue returns N, its sign
\* included, whatever follows the token.
ParseValueReturnsSignedToken ==
    (ppc = "parseValue" /\ FirstNumericToken(pin, 1) # <<>>)
        => pout = ParseFloat(FirstNumericToken(pin, 1)[1])

\* The name C6 describes: "$SYS/" removed if the topic starts with it, then
\* '/', ' ', '-' and '.' replaced by '_'.
PrefixStrippedName(topic) ==
    LET rest == IF HasPrefix(topic, Sys)
                THEN SubSeq(topic, Len(Sys) + 1, Len(topic)) ELSE topic
    IN  [i \in 1..Len(rest) |->
            IF rest[i] \in {"/", " ", "-", "."} THEN "_" ELSE rest[i]]

\* C6: parseTopic returns, for every topic string, the name obtained by
\* removing "$SYS/" only at the start of the topic and replacing '/', ' ',
\* '-' and '.' by '_'.
ParseTopicStripsPrefixOnly ==
    ppc = "parseTopic" => pout = PrefixStrippedName(pin)

\* C7: no two registered metrics share a derived name, and a metric that is
\* in a map without being registered is either the one the running call is
\* about to register or the process has aborted: a conflict at registration
\* never leaves the process running.
ConflictAborts ==
    /\ \A t1, t2 \in registered : NameOf[t1] = NameOf[t2] => t1 = t2
    /\ \A t \in Keys \ registered :
          \/ crashed
          \/ hTopic = t /\ hpc \in {"counterRegister", "gaugeRegister"}

\* C7 witness: the first message of a topic whose derived name a registered
\* metric of another topic has; the process has aborted in MustRegister.
AbortedOnConflict ==
    /\ crashed /\ hpc \in {"counterRegister", "gaugeRegister"}
    /\ hTopic \in Keys \ registered
    /\ \E r \in registered : r # hTopic /\ NameOf[r] = NameOf[hTopic]

\* C8: the message callback never inserts into counterMetrics or
\* gaugeMetrics while the connection-lost callback is ranging over that map.
RegistryMapsExclusive ==
    [][/\ (hpc = "counterStore" /\ HandlerStep) => rpc # "rangeCounters"
       /\ (hpc = "gaugeStore" /\ HandlerStep) => rpc # "rangeGauges"]_vars

\* C9: while the connection-lost callback ranges over a map, every key of
\* that map is a registered metric: it never sees a metric stored and not
\* yet registered.
CreationAtomic ==
    /\ rpc = "rangeCounters" => DOMAIN counterMetrics \subseteq registered
    /\ rpc = "rangeGauges" => DOMAIN gaugeMetrics \subseteq registered

\* C10: with reset-metrics on, the connection-lost callback runs
\* resetMetrics and returns only after it, every metric 0 unless an update
\* wrote meanwhile; with reset-metrics off, no step of the callback changes
\* a map, a value or the registered set, and resetMetrics is never entered.
ResetToggleDecides ==
    /\ [][(rpc = "OnConnectionLost" /\ rpc' # rpc) =>
            rpc' = IF resetMetricsFlag THEN "rangeCounters" ELSE "idle"]_vars
    /\ [][(resetMetricsFlag /\ rpc # "idle" /\ rpc' = "idle") =>
            rpc = "resetDone"]_vars
    /\ []((resetMetricsFlag /\ rpc = "resetDone" /\ ~dirty) => AllZero)
    /\ [][(~resetMetricsFlag /\ CallbackStep) => UNCHANGED registry]_vars
    /\ [](~resetMetricsFlag => ~InReset)

\* C10 witness: reset-metrics is off, the connection was lost and the
\* callback has returned, and a metric still holds a non-zero value.
LostWithoutReset ==
    /\ ~resetMetricsFlag /\ conn = "down" /\ rpc = "idle"
    /\ \E t \in Keys : Value(t) # Zero

\* C11: from the empty registry, the updates ("$SYS/broker/messages/received",
\* "120"), ("$SYS/broker/clients/active", "5"), ("$SYS/broker/load/1min",
\* "0.42") leave the counter at 120 and the gauge at 0.42, and resetMetrics
\* after them ends with exactly two metrics, the counter
\* broker_messages_received = 0 and the gauge broker_load_1min = 0, and no
\* metric for "$SYS/broker/clients/active".
NameMessagesReceived ==
    <<"b", "r", "o", "k", "e", "r", "_", "m", "e", "s", "s", "a", "g", "e", "s",
      "_", "r", "e", "c", "e", "i", "v", "e", "d">>

NameLoad1min ==
    <<"b", "r", "o", "k", "e", "r", "_", "l", "o", "a", "d", "_", "1", "m", "i", "n">>

ScenarioEndsWithTwoZeroMetrics ==
    /\ (scenario = ScenarioMsgs /\ hpc = "idle") =>
          /\ counterMetrics = (TopicMessagesReceived :> [m |-> 120, e |-> 0])
          /\ gaugeMetrics = (TopicLoad1min :> [m |-> 42, e |-> 2])
    /\ (scenario = Scenario /\ rpc = "resetDone") =>
          /\ counterMetrics = (TopicMessagesReceived :> Zero)
          /\ gaugeMetrics = (TopicLoad1min :> Zero)
          /\ registered = {TopicMessagesReceived, TopicLoad1min}
          /\ parseTopic(TopicMessagesReceived) = NameMessagesReceived
          /\ parseTopic(TopicLoad1min) = NameLoad1min
          /\ TopicClientsActive \notin Keys \cup registered

\* C11 witness: the four calls of the walk-through have run, and nothing else.
ScenarioRan ==
    /\ scenario = Scenario /\ rpc = "resetDone"
    /\ Keys = {TopicMessagesReceived, TopicLoad1min}

\* C12: parseValue returns 0 for every payload that contains no digit, and a
\* call processUpdate(topic, payload) with such a payload on a topic that is
\* not ignored reaches its return with the metric of the topic present and
\* 0, the process running.
NoDigit(s) == \A i \in 1..Len(s) : s[i] \notin Digits

NoDigitParsesToZero ==
    \A s \in PureInputs \cup Payloads : NoDigit(s) => parseValue(s) = Zero

NoDigitPayloadSetsZero ==
    /\ NoDigitParsesToZero
    /\ (hpc = "return" /\ hTopic \notin ignoreKeyMetrics /\ NoDigit(hPayload)) =>
          /\ hTopic \in Keys
          /\ Value(hTopic) = Zero
          /\ ~crashed

\* C12 witness: a payload without a digit has replaced the non-zero value of
\* an existing metric by 0.
NoDigitPayloadReplacedValue ==
    /\ hpc = "return" /\ hTopic \in Keys /\ NoDigit(hPayload)
    /\ hOld # Zero /\ Value(hTopic) = Zero /\ rpc = "idle"

\* C13: a metric is constructed and stored only for a topic that has no
\* entry, it is registered only when the topic is not registered yet, no
\* entry and no registration is ever removed, and an update for a topic that
\* has an entry, at 0 after a reset or not, goes on to set its value: so each
\* topic's metric is constructed and registered at most once.
CreatedOncePerTopic ==
    [][/\ (hpc \in {"counterStore", "gaugeStore"} /\ HandlerStep) => hTopic \notin Keys
       /\ registered' # registered =>
             hTopic \notin registered /\ registered' = registered \cup {hTopic}
       /\ DOMAIN counterMetrics \subseteq DOMAIN counterMetrics'
       /\ DOMAIN gaugeMetrics \subseteq DOMAIN gaugeMetrics'
       /\ registered \subseteq registered'
       /\ (hpc = "processCounterMetric" /\ HandlerStep
             /\ hTopic \in DOMAIN counterMetrics) => hpc' = "counterSet"
       /\ (hpc = "processGaugeMetric" /\ HandlerStep
             /\ hTopic \in DOMAIN gaugeMetrics) => hpc' = "gaugeSet"]_vars

\* C13 witness: an update for a counter that a reset has set to 0 has found
\* the entry, registered, and is about to set its value.
UpdateAfterResetFoundEntry ==
    /\ hpc = "counterSet" /\ rpc = "idle"
    /\ counterMetrics[hTopic] = Zero /\ lastPayload[hTopic] = <<>>
    /\ hTopic \in registered

\* C14: a message that the callback is processing while the connection-lost
\* callback still runs was received on the connection made after that loss;
\* once the call has set the metric of its topic and until it returns, with
\* no update and no connection loss after it, the metric holds the parsed
\* value: the reset of the connection before does not overwrite it.
StaleResetKeepsFreshValue ==
    (hpc = "return" /\ hTopic \notin ignoreKeyMetrics /\ rpc # "idle" /\ conn = "up") =>
        Value(hTopic) = ValueOf[hPayload]

\* C15: no step of processUpdate(t, payload) changes, for a topic u other
\* than t, whether u has a counter, whether u has a gauge, whether u is
\* registered, or the value of u's metric.
UpdateTouchesOnlyItsTopic ==
    [][HandlerStep =>
          LET t == IF hpc = "idle" THEN hTopic' ELSE hTopic
          IN  \A u \in MsgTopics \ {t} :
                 /\ (u \in DOMAIN counterMetrics) = (u \in DOMAIN counterMetrics')
                 /\ (u \in DOMAIN gaugeMetrics) = (u \in DOMAIN gaugeMetrics')
                 /\ (u \in registered) = (u \in registered')
                 /\ u \in Keys => Value(u)' = Value(u)]_vars

\* C15 witness: a call has set the counter of its topic and is at its return
\* while the gauge of another topic holds another, non-zero value.
UpdatedBesideOtherMetric ==
    /\ hpc = "return" /\ hTopic \in DOMAIN counterMetrics
    /\ counterMetrics[hTopic] = ValueOf[hPayload]
    /\ \E u \in DOMAIN gaugeMetrics :
          gaugeMetrics[u] # Zero /\ gaugeMetrics[u] # ValueOf[hPayload]

\* C16: a connect attempt ends in the listen, when it succeeded, or in the
\* sleep that the next attempt follows, never in an exit; nothing ends the
\* process while the loop runs; and, the main goroutine scheduled fairly,
\* every sleep is followed by a further attempt and, once an attempt has
\* succeeded, the loop is left and ListenAndServe is called, serving or
\* failing, unless a panic of a callback has ended the process before.
ConnectRetriedWithoutLimit ==
    /\ [][(mpc = "connect" /\ mpc' # mpc) => mpc' \in {"listen", "sleep"}]_vars
    /\ [][(mpc = "sleep" /\ mpc' # mpc) => mpc' = "connect"]_vars
    /\ [][(mpc' = "listen" /\ mpc' # mpc) => (mpc = "connect" /\ conn' = "up")]_vars
    /\ [](mpc \in {"connect", "sleep"} => Alive)
    /\ (mpc = "sleep") ~> (mpc = "connect")
    /\ (mpc = "listen") ~> (mpc \in {"serving", "exited"} \/ crashed)

\* C16 witness: an attempt has failed, the sleep is over and the loop is at
\* its next attempt.
RetryingAfterFailure == mpc = "connect" /\ retried /\ Alive

\* C17: in every reachable state the ignored table and the counter table
\* are disjoint, every key of counterMetrics is in the counter table, no key
\* of gaugeMetrics is in the ignored or the counter table, no topic is a key
\* of both maps, and no ignored topic is a key of either or registered.
MapsFollowTables ==
    /\ ignoreKeyMetrics \cap counterKeyMetrics = {}
    /\ DOMAIN counterMetrics \subseteq counterKeyMetrics
    /\ DOMAIN gaugeMetrics \cap (ignoreKeyMetrics \cup counterKeyMetrics) = {}
    /\ DOMAIN counterMetrics \cap DOMAIN gaugeMetrics = {}
    /\ (Keys \cup registered) \cap ignoreKeyMetrics = {}

\* C17 witness: messages of a counter topic, of a gauge topic and of an
\* ignored topic have all been processed: both maps hold a metric and the
\* call for the ignored topic is at its return.
AllThreeClassesProcessed ==
    /\ DOMAIN counterMetrics # {} /\ DOMAIN gaugeMetrics # {}
    /\ hpc = "return" /\ hTopic \in ignoreKeyMetrics
    /\ \A t \in Keys : lastPayload[t] # <<>>

ListenOnlyAfterConnect ==
    /\ [](~everConnected => (mpc \in {"connect", "sleep"} /\ conn = "down"))
    /\ [][(mpc' = "serving" /\ mpc # "serving") =>
             (mpc = "listen" /\ everConnected)]_vars
    /\ [][(~everConnected /\ everConnected') =>
             (mpc = "connect" /\ mpc' = "listen" /\ conn' = "up")]_vars

\* C19 witness: the endpoint serves, after an attempt that connected.
ServingAfterConnect == mpc = "serving" /\ everConnected /\ Alive

====
